---- MODULE Spec2Model ----
(***************************************************************************)
(* Model of the ultra-low-power LoRa node (src/transmissor/transmissor.ino, *)
(* with the earlier variant in src/unnamed/part_000).  One wake cycle is    *)
(* one run of setup(); the RTC_DATA_ATTR variables are the only state that  *)
(* survives the deep sleep between two runs.                                *)
(*                                                                          *)
(* Floats are modelled exactly: a float value v is the integer v * 2^20.    *)
(* Every value the node handles is a multiple of 2^-20 (binary32 values of  *)
(* magnitude >= 8 have an ulp >= 2^-20), and RoundF32 rounds an exact       *)
(* result to the nearest binary32 value as the FPU does.                    *)
(* Durations are in microseconds, as in the code.                           *)
(***************************************************************************)
EXTENDS Integers, Sequences, FiniteSets, TLC

VARIABLES
    lastTemp, lastUmi, lastPoeira,   \* RTC: last sent reading
    skipSendCount,                   \* RTC: consecutive silent cycles
    totalUptimeMicros,               \* RTC: accumulated active + sleep time
    lastSendTimestamp,               \* RTC: totalUptimeMicros at the last send
    pc,                              \* position inside setup(), "sleep" between runs
    temperatura, umidade, poeira,    \* locals of setup(): the current reading
    mudouAlgo,                       \* local of setup(): the change decision
    firstBootReport,                 \* which branch of the "time since last send" report ran
    atWake,                          \* history: the RTC values this cycle woke up with
    path,                            \* history: path of the current / last cycle
    txPacket,                        \* history: payload put on the radio in this cycle
    loraBeginCalls,                  \* history: LoRa.begin attempts in this cycle
    sleepRequests,                   \* history: esp_deep_sleep_start calls in this cycle
    cycles,                          \* history: completed wake cycles
    sendDone,                        \* history: some cycle has completed a send
    activeMicros,                    \* local of dormir(): active time of the last cycle
    consecSkips,                     \* history: cycles in a row that ended on the SKIP path
    sumActive,                       \* history: sum of the active times of all cycles
    prevPath,                        \* history: path of the cycle before the current one
    \* the gateway (second sketch of transmissor.ino)
    gwPc,                            \* position in the gateway's setup() / loop()
    serialOut,                       \* protocol lines written to Serial, in order
    led,                             \* status LED
    radioMode,                       \* receiver: "idle", "rx" (listening) or "done" (packet held)
    radioFifo,                       \* receiver: payload of the packet held
    regRssi, regSnr,                 \* receiver: link quality of the packet held
    dados_recebidos,                 \* local of receberPacote()
    rssi, snr,                       \* locals of receberPacote()
    accepted,                        \* history: packets parsePacket() has reported
    arrived,                         \* history: packets that reached the antenna
    \* the earlier low-power node (src/unnamed/part_000)
    oldLastTemp, oldLastUmi, oldLastPoeira, oldSkipSendCount,   \* RTC
    oldPath,                         \* history: path of its last cycle
    oldTxPacket,                     \* history: payload it put on the radio in that cycle
    oldCycles                        \* history: its completed wake cycles

vars == <<lastTemp, lastUmi, lastPoeira, skipSendCount, totalUptimeMicros,
          lastSendTimestamp, pc, temperatura, umidade, poeira, mudouAlgo,
          firstBootReport, atWake, path, txPacket, loraBeginCalls,
          sleepRequests, cycles, sendDone, activeMicros, consecSkips, sumActive,
          prevPath, gwPc, serialOut, led, radioMode, radioFifo, regRssi, regSnr,
          dados_recebidos, rssi, snr, accepted, arrived,
          oldLastTemp, oldLastUmi, oldLastPoeira, oldSkipSendCount, oldPath,
          oldTxPacket, oldCycles>>

gwVars == <<gwPc, serialOut, led, radioMode, radioFifo, regRssi, regSnr,
            dados_recebidos, rssi, snr, accepted, arrived>>

oldVars == <<oldLastTemp, oldLastUmi, oldLastPoeira, oldSkipSendCount, oldPath,
             oldTxPacket, oldCycles>>

extVars == <<gwVars, oldVars>>

nodeVars == <<lastTemp, lastUmi, lastPoeira, skipSendCount, totalUptimeMicros,
              lastSendTimestamp, pc, temperatura, umidade, poeira, mudouAlgo,
              firstBootReport, atWake, path, txPacket, loraBeginCalls,
              sleepRequests, cycles, sendDone, activeMicros, consecSkips, sumActive,
              prevPath>>

histVars == <<activeMicros, consecSkips, sumActive>>

rtcVars == <<lastTemp, lastUmi, lastPoeira, skipSendCount, totalUptimeMicros,
             lastSendTimestamp>>

----------------------------------------------------------------------------
(* Fixed-point representation of binary32 values *)

Unit == 2^20

Abs(x) == IF x < 0 THEN -x ELSE x

\* ulp of a binary32 number of magnitude m (in units of 2^-20); numbers
\* below 2^24 units are integers of at most 24 bits and so are exact.
RECURSIVE UlpFrom(_, _)
UlpFrom(m, u) == IF m \div 2^24 < u THEN u ELSE UlpFrom(m, 2 * u)

Ulp(m) == UlpFrom(m, 1)

\* num/den >= 0 rounded to the nearest multiple of u, ties to even
RoundNearestEven(num, den, u) ==
    LET d == den * u
        q == num \div d
        r == num % d
    IN  IF 2 * r > d \/ (2 * r = d /\ q % 2 = 1) THEN (q + 1) * u ELSE q * u

\* the binary32 value nearest to the exact value num/den (in units of 2^-20)
RoundF32(num, den) ==
    LET m == Abs(num) \div den
        r == RoundNearestEven(Abs(num), den, Ulp(m))
    IN  IF num < 0 THEN -r ELSE r

\* float a - float b, computed in binary32
SubF32(a, b) == RoundF32(a - b, 1)

----------------------------------------------------------------------------
(* Configuration *)

TEMPO_SLEEP == 1
SleepMicros == TEMPO_SLEEP * 1000000
LIMITE_TEMP == Unit \div 2
LIMITE_UMI == 2 * Unit
LIMITE_POEIRA == 5 * Unit
ForceSendLimit == 60
Unset == -1000 * Unit
TempBaseTenths == 280
UmidBaseTenths == 450

\* Bounds of the model: simulated random() draws, active times, cycles
TempDraws == {0, 3, 5}
UmiDraws == {0}
PoeiraDraws == {200}
ActiveTimes == {200000, 500000}
MaxCycles == 6
TempDrawsLong == {0, 5}
ActiveTimesLong == {200000}
MaxCyclesLong == 62
TempDrawsSteady == {0}
MaxCyclesSteady == 62
TempDrawsDetect == {-50, 0, 5, 36, 41, 49}
UmiDrawsDetect == {-100, 0, 20, 99}
PoeiraDrawsDetect == {100, 113, 163, 499}
MaxCyclesDetect == 2

----------------------------------------------------------------------------
(* Measurement (simulated sensors) *)

constrain(x, lo, hi) == IF x < lo THEN lo ELSE IF x > hi THEN hi ELSE x

\* temp_base + random(-50, 50) / 10.0, narrowed to float
SimTemperatura(r) == RoundF32((TempBaseTenths + r) * Unit, 10)

\* umid_base + random(-100, 100) / 10.0, narrowed to float, then constrained
SimUmidade(r) == constrain(RoundF32((UmidBaseTenths + r) * Unit, 10), 0, 100 * Unit)

\* random(100, 500) / 10.0, narrowed to float
SimPoeira(r) == RoundF32(r * Unit, 10)

----------------------------------------------------------------------------
(* Change detection *)

\* mutant: strict comparison
mudouTempStrict(cur, last) == Abs(SubF32(cur, last)) > LIMITE_TEMP

mudouTemp(cur, last) == Abs(SubF32(cur, last)) >= LIMITE_TEMP
mudouUmi(cur, last) == Abs(SubF32(cur, last)) >= LIMITE_UMI
mudouPoeira(cur, last) == Abs(SubF32(cur, last)) >= LIMITE_POEIRA

Decide(t, u, p, lt, lu, lp) ==
    mudouTemp(t, lt) \/ mudouUmi(u, lu) \/ mudouPoeira(p, lp)

----------------------------------------------------------------------------
(* Payload *)

\* String(x, 2): the value rounded to two decimals, as hundredths
Round2(m) == (m \div Unit) * 100 + ((m % Unit) * 100 + Unit \div 2) \div Unit

Fmt2(x) == IF x < 0 THEN -Round2(-x) ELSE Round2(x)

Json(t, u, p) == <<"SALA_SERVIDORES_01", Fmt2(t), Fmt2(u), Fmt2(p)>>

NoPacket == <<>>

----------------------------------------------------------------------------
(* The wake cycle *)

Snapshot == [lastTemp |-> lastTemp, lastUmi |-> lastUmi, lastPoeira |-> lastPoeira,
             skipSendCount |-> skipSendCount,
             totalUptimeMicros |-> totalUptimeMicros,
             lastSendTimestamp |-> lastSendTimestamp]

\* the gateway before its setup() has run
GwInit ==
    /\ gwPc = "boot"
    /\ serialOut = <<>>
    /\ led = FALSE
    /\ radioMode = "idle"
    /\ radioFifo = <<>>
    /\ regRssi = 0
    /\ regSnr = 0
    /\ dados_recebidos = <<>>
    /\ rssi = 0
    /\ snr = 0
    /\ accepted = <<>>
    /\ arrived = 0

\* the earlier node at cold start
OldInit ==
    /\ oldLastTemp = Unset
    /\ oldLastUmi = Unset
    /\ oldLastPoeira = Unset
    /\ oldSkipSendCount = 0
    /\ oldPath = "NONE"
    /\ oldTxPacket = NoPacket
    /\ oldCycles = 0

\* mutant: the baseline starts at the simulation bases instead of a sentinel
InitAtBase ==
    /\ lastTemp = SimTemperatura(0)
    /\ lastUmi = SimUmidade(0)
    /\ lastPoeira = SimPoeira(100)
    /\ skipSendCount = 0
    /\ totalUptimeMicros = 0
    /\ lastSendTimestamp = 0
    /\ pc = "sleep"
    /\ temperatura = 0
    /\ umidade = 0
    /\ poeira = 0
    /\ mudouAlgo = FALSE
    /\ firstBootReport = TRUE
    /\ atWake = Snapshot
    /\ path = "NONE"
    /\ txPacket = NoPacket
    /\ loraBeginCalls = 0
    /\ sleepRequests = 0
    /\ cycles = 0
    /\ sendDone = FALSE
    /\ activeMicros = 0
    /\ consecSkips = 0
    /\ sumActive = 0
    /\ prevPath = "NONE"
    /\ GwInit
    /\ OldInit

Init ==
    /\ lastTemp = Unset
    /\ lastUmi = Unset
    /\ lastPoeira = Unset
    /\ skipSendCount = 0
    /\ totalUptimeMicros = 0
    /\ lastSendTimestamp = 0
    /\ pc = "sleep"
    /\ temperatura = 0
    /\ umidade = 0
    /\ poeira = 0
    /\ mudouAlgo = FALSE
    /\ firstBootReport = TRUE
    /\ atWake = Snapshot
    /\ path = "NONE"
    /\ txPacket = NoPacket
    /\ loraBeginCalls = 0
    /\ sleepRequests = 0
    /\ cycles = 0
    /\ sendDone = FALSE
    /\ activeMicros = 0
    /\ consecSkips = 0
    /\ sumActive = 0
    /\ prevPath = "NONE"
    /\ GwInit
    /\ OldInit

\* timer wakeup: setup() starts, prints the time since the last send
Wake(maxCycles) ==
    /\ pc = "sleep"
    /\ cycles < maxCycles
    /\ pc' = "measure"
    /\ firstBootReport' = (lastSendTimestamp = 0)
    /\ atWake' = Snapshot
    /\ prevPath' = path
    /\ path' = "NONE"
    /\ txPacket' = NoPacket
    /\ loraBeginCalls' = 0
    /\ sleepRequests' = 0
    /\ UNCHANGED <<rtcVars, temperatura, umidade, poeira, mudouAlgo, cycles, sendDone, histVars>>
    /\ UNCHANGED extVars

Measure(tempDraws, umiDraws, poeiraDraws) ==
    /\ pc = "measure"
    /\ \E rt \in tempDraws, ru \in umiDraws, rp \in poeiraDraws :
          /\ temperatura' = SimTemperatura(rt)
          /\ umidade' = SimUmidade(ru)
          /\ poeira' = SimPoeira(rp)
    /\ pc' = "evaluate"
    /\ UNCHANGED <<rtcVars, mudouAlgo, firstBootReport, atWake, path, txPacket,
                   loraBeginCalls, sleepRequests, cycles, sendDone, histVars, prevPath>>
    /\ UNCHANGED extVars

\* mutant: the forced send comes one cycle late
EvaluateOffByOne ==
    /\ pc = "evaluate"
    /\ mudouAlgo' = Decide(temperatura, umidade, poeira, lastTemp, lastUmi, lastPoeira)
    /\ IF mudouAlgo'
         THEN /\ skipSendCount' = skipSendCount
              /\ pc' = "commit"
              /\ path' = "SEND"
         ELSE /\ skipSendCount' = skipSendCount + 1
              /\ IF skipSendCount' <= ForceSendLimit
                   THEN pc' = "dormir" /\ path' = "SKIP"
                   ELSE pc' = "commit" /\ path' = "SEND"
    /\ UNCHANGED <<lastTemp, lastUmi, lastPoeira, totalUptimeMicros, lastSendTimestamp,
                   temperatura, umidade, poeira, firstBootReport, atWake, txPacket,
                   loraBeginCalls, sleepRequests, cycles, sendDone, histVars, prevPath>>
    /\ UNCHANGED extVars

\* mutant: no forced send at all
EvaluateNoForce ==
    /\ pc = "evaluate"
    /\ mudouAlgo' = Decide(temperatura, umidade, poeira, lastTemp, lastUmi, lastPoeira)
    /\ IF mudouAlgo'
         THEN /\ skipSendCount' = skipSendCount
              /\ pc' = "commit"
              /\ path' = "SEND"
         ELSE /\ skipSendCount' = IF skipSendCount < ForceSendLimit
                                    THEN skipSendCount + 1 ELSE skipSendCount
              /\ pc' = "dormir"
              /\ path' = "SKIP"
    /\ UNCHANGED <<lastTemp, lastUmi, lastPoeira, totalUptimeMicros, lastSendTimestamp,
                   temperatura, umidade, poeira, firstBootReport, atWake, txPacket,
                   loraBeginCalls, sleepRequests, cycles, sendDone, histVars, prevPath>>
    /\ UNCHANGED extVars

\* mutant: a silent cycle also moves the baseline to the current reading
EvaluateTracksBaseline ==
    /\ pc = "evaluate"
    /\ mudouAlgo' = Decide(temperatura, umidade, poeira, lastTemp, lastUmi, lastPoeira)
    /\ IF mudouAlgo'
         THEN /\ skipSendCount' = skipSendCount
              /\ pc' = "commit"
              /\ path' = "SEND"
              /\ UNCHANGED <<lastTemp, lastUmi, lastPoeira>>
         ELSE /\ skipSendCount' = skipSendCount + 1
              /\ lastTemp' = temperatura
              /\ lastUmi' = umidade
              /\ lastPoeira' = poeira
              /\ IF skipSendCount' < ForceSendLimit
                   THEN pc' = "dormir" /\ path' = "SKIP"
                   ELSE pc' = "commit" /\ path' = "SEND"
    /\ UNCHANGED <<totalUptimeMicros, lastSendTimestamp,
                   temperatura, umidade, poeira, firstBootReport, atWake, txPacket,
                   loraBeginCalls, sleepRequests, cycles, sendDone, histVars, prevPath>>
    /\ UNCHANGED extVars

\* lines 107-132: the decision, the silent-cycle counter and the forced send
Evaluate ==
    /\ pc = "evaluate"
    /\ mudouAlgo' = Decide(temperatura, umidade, poeira, lastTemp, lastUmi, lastPoeira)
    /\ IF mudouAlgo'
         THEN /\ skipSendCount' = skipSendCount
              /\ pc' = "commit"
              /\ path' = "SEND"
         ELSE /\ skipSendCount' = skipSendCount + 1
              /\ IF skipSendCount' < ForceSendLimit
                   THEN pc' = "dormir" /\ path' = "SKIP"
                   ELSE pc' = "commit" /\ path' = "SEND"
    /\ UNCHANGED <<lastTemp, lastUmi, lastPoeira, totalUptimeMicros, lastSendTimestamp,
                   temperatura, umidade, poeira, firstBootReport, atWake, txPacket,
                   loraBeginCalls, sleepRequests, cycles, sendDone, histVars, prevPath>>
    /\ UNCHANGED extVars

\* lines 134-138
Commit ==
    /\ pc = "commit"
    /\ skipSendCount' = 0
    /\ lastTemp' = temperatura
    /\ lastUmi' = umidade
    /\ lastPoeira' = poeira
    /\ pc' = "lora_begin"
    /\ UNCHANGED <<totalUptimeMicros, lastSendTimestamp, temperatura, umidade, poeira,
                   mudouAlgo, firstBootReport, atWake, path, txPacket, loraBeginCalls,
                   sleepRequests, cycles, sendDone, histVars, prevPath>>
    /\ UNCHANGED extVars

\* mutant: the send goes ahead without a LoRa.begin of its own
LoRaBeginOkNoCall ==
    /\ pc = "lora_begin"
    /\ pc' = "transmit"
    /\ UNCHANGED <<rtcVars, temperatura, umidade, poeira, mudouAlgo, firstBootReport,
                   atWake, path, txPacket, loraBeginCalls, sleepRequests, cycles,
                   sendDone, histVars, prevPath>>
    /\ UNCHANGED extVars

\* lines 143-154: LoRa.begin succeeds
LoRaBeginOk ==
    /\ pc = "lora_begin"
    /\ loraBeginCalls' = loraBeginCalls + 1
    /\ pc' = "transmit"
    /\ UNCHANGED <<rtcVars, temperatura, umidade, poeira, mudouAlgo, firstBootReport,
                   atWake, path, txPacket, sleepRequests, cycles, sendDone, histVars, prevPath>>
    /\ UNCHANGED extVars

\* mutant: after the failed LoRa.begin the code falls through to the send
LoRaBeginFailFallsThrough ==
    /\ pc = "lora_begin"
    /\ loraBeginCalls' = loraBeginCalls + 1
    /\ path' = "RADIO_FAULT"
    /\ pc' = "transmit"
    /\ UNCHANGED <<rtcVars, temperatura, umidade, poeira, mudouAlgo, firstBootReport,
                   atWake, txPacket, sleepRequests, cycles, sendDone, histVars, prevPath>>
    /\ UNCHANGED extVars

\* lines 146-149: LoRa.begin fails, dormir() is called and does not return
LoRaBeginFail ==
    /\ pc = "lora_begin"
    /\ loraBeginCalls' = loraBeginCalls + 1
    /\ path' = "RADIO_FAULT"
    /\ pc' = "dormir"
    /\ UNCHANGED <<rtcVars, temperatura, umidade, poeira, mudouAlgo, firstBootReport,
                   atWake, txPacket, sleepRequests, cycles, sendDone, histVars, prevPath>>
    /\ UNCHANGED extVars

\* lines 161-175
Transmit ==
    /\ pc = "transmit"
    /\ txPacket' = Json(temperatura, umidade, poeira)
    /\ pc' = "stamp"
    /\ UNCHANGED <<rtcVars, temperatura, umidade, poeira, mudouAlgo, firstBootReport,
                   atWake, path, loraBeginCalls, sleepRequests, cycles, sendDone,
                   histVars, prevPath>>
    /\ UNCHANGED extVars

\* mutant: the timestamp already includes the sleep that follows
StampWithCycle ==
    /\ pc = "stamp"
    /\ lastSendTimestamp' = totalUptimeMicros + SleepMicros
    /\ sendDone' = TRUE
    /\ pc' = "dormir"
    /\ UNCHANGED <<lastTemp, lastUmi, lastPoeira, skipSendCount, totalUptimeMicros,
                   temperatura, umidade, poeira, mudouAlgo, firstBootReport, atWake,
                   path, txPacket, loraBeginCalls, sleepRequests, cycles, histVars, prevPath>>
    /\ UNCHANGED extVars

\* line 184
Stamp ==
    /\ pc = "stamp"
    /\ lastSendTimestamp' = totalUptimeMicros
    /\ sendDone' = TRUE
    /\ pc' = "dormir"
    /\ UNCHANGED <<lastTemp, lastUmi, lastPoeira, skipSendCount, totalUptimeMicros,
                   temperatura, umidade, poeira, mudouAlgo, firstBootReport, atWake,
                   path, txPacket, loraBeginCalls, sleepRequests, cycles, histVars, prevPath>>
    /\ UNCHANGED extVars

\* mutant: the radio-fault path goes to sleep without accounting the cycle
DormirFaultUnaccounted(activeTimes) ==
    /\ pc = "dormir"
    /\ \E a \in activeTimes : activeMicros' = a
    /\ totalUptimeMicros' = IF path = "RADIO_FAULT" THEN totalUptimeMicros
                            ELSE totalUptimeMicros + activeMicros' + SleepMicros
    /\ sumActive' = sumActive + activeMicros'
    /\ consecSkips' = IF path = "SKIP" THEN consecSkips + 1 ELSE 0
    /\ sleepRequests' = sleepRequests + 1
    /\ cycles' = cycles + 1
    /\ pc' = "sleep"
    /\ UNCHANGED <<lastTemp, lastUmi, lastPoeira, skipSendCount, lastSendTimestamp,
                   temperatura, umidade, poeira, mudouAlgo, firstBootReport, atWake,
                   path, txPacket, loraBeginCalls, sendDone, prevPath>>
    /\ UNCHANGED extVars

\* mutant: dormir() returns to its caller on the radio-fault path
DormirReturnsOnFault(activeTimes) ==
    /\ pc = "dormir"
    /\ \E a \in activeTimes : activeMicros' = a
    /\ totalUptimeMicros' = totalUptimeMicros + activeMicros' + SleepMicros
    /\ sumActive' = sumActive + activeMicros'
    /\ consecSkips' = IF path = "SKIP" THEN consecSkips + 1 ELSE 0
    /\ sleepRequests' = sleepRequests + 1
    /\ IF path = "RADIO_FAULT" /\ sleepRequests = 0
         THEN pc' = "transmit" /\ cycles' = cycles
         ELSE pc' = "sleep" /\ cycles' = cycles + 1
    /\ UNCHANGED <<lastTemp, lastUmi, lastPoeira, skipSendCount, lastSendTimestamp,
                   temperatura, umidade, poeira, mudouAlgo, firstBootReport, atWake,
                   path, txPacket, loraBeginCalls, sendDone, prevPath>>
    /\ UNCHANGED extVars

\* dormir(startMicros): account the cycle and enter deep sleep
Dormir(activeTimes) ==
    /\ pc = "dormir"
    /\ \E a \in activeTimes : activeMicros' = a
    /\ totalUptimeMicros' = totalUptimeMicros + activeMicros' + SleepMicros
    /\ sumActive' = sumActive + activeMicros'
    /\ consecSkips' = IF path = "SKIP" THEN consecSkips + 1 ELSE 0
    /\ sleepRequests' = sleepRequests + 1
    /\ cycles' = cycles + 1
    /\ pc' = "sleep"
    /\ UNCHANGED <<lastTemp, lastUmi, lastPoeira, skipSendCount, lastSendTimestamp,
                   temperatura, umidade, poeira, mudouAlgo, firstBootReport, atWake,
                   path, txPacket, loraBeginCalls, sendDone, prevPath>>
    /\ UNCHANGED extVars

Next ==
    \/ Wake(MaxCycles)
    \/ Measure(TempDraws, UmiDraws, PoeiraDraws)
    \/ Evaluate
    \/ Commit
    \/ LoRaBeginOk
    \/ LoRaBeginFail
    \/ Transmit
    \/ Stamp
    \/ Dormir(ActiveTimes)

Spec == Init /\ [][Next]_vars

\* the same node over enough cycles to reach the forced send
NextLong ==
    \/ Wake(MaxCyclesLong)
    \/ Measure(TempDrawsLong, UmiDraws, PoeiraDraws)
    \/ Evaluate
    \/ Commit
    \/ LoRaBeginOk
    \/ LoRaBeginFail
    \/ Transmit
    \/ Stamp
    \/ Dormir(ActiveTimesLong)

SpecLong == Init /\ [][NextLong]_vars

\* the same node with a steady reading and varying active times
NextSteady ==
    \/ Wake(MaxCyclesSteady)
    \/ Measure(TempDrawsSteady, UmiDraws, PoeiraDraws)
    \/ Evaluate
    \/ Commit
    \/ LoRaBeginOk
    \/ LoRaBeginFail
    \/ Transmit
    \/ Stamp
    \/ Dormir(ActiveTimes)

SpecSteady == Init /\ [][NextSteady]_vars

\* the first cycles of the node over readings that span the sensor ranges
\* and sit on both sides of each threshold
NextDetect ==
    \/ Wake(MaxCyclesDetect)
    \/ Measure(TempDrawsDetect, UmiDrawsDetect, PoeiraDrawsDetect)
    \/ Evaluate
    \/ Commit
    \/ LoRaBeginOk
    \/ LoRaBeginFail
    \/ Transmit
    \/ Stamp
    \/ Dormir(ActiveTimesLong)

SpecDetect == Init /\ [][NextDetect]_vars

----------------------------------------------------------------------------
(* The gateway: strings are sequences of characters, fixed literals are   *)
(* kept as one element each.  Only the protocol lines (ERROR:, READY:,    *)
(* DATA:) are kept in serialOut; the banner lines are left out.           *)

MaxPayloadLen == 2
MaxPackets == 2
GwAlphabet == {" ", "}", "a"}
GwPayloads == UNION {[1..k -> GwAlphabet] : k \in 1..MaxPayloadLen}

\* (packetRssi, packetSnr in quarters of a dB): -42 / 7.5 and -120 / -9.5
GwMetas == {<<-42, 30>>, <<-120, -38>>}

IsSpace(c) == c \in {" ", "\n", "\r", "\t"}

RECURSIVE TrimLeft(_)
TrimLeft(s) == IF s # <<>> /\ IsSpace(Head(s)) THEN TrimLeft(Tail(s)) ELSE s

RECURSIVE TrimRight(_)
TrimRight(s) ==
    IF s # <<>> /\ IsSpace(s[Len(s)]) THEN TrimRight(SubSeq(s, 1, Len(s) - 1)) ELSE s

\* String::trim
trim(s) == TrimRight(TrimLeft(s))

\* String::endsWith
endsWith(s, c) == s # <<>> /\ s[Len(s)] = c

DigitChar(d) == <<"0", "1", "2", "3", "4", "5", "6", "7", "8", "9">>[d + 1]

RECURSIVE NatToStr(_)
NatToStr(n) ==
    IF n < 10 THEN <<DigitChar(n)>> ELSE NatToStr(n \div 10) \o <<DigitChar(n % 10)>>

\* String(int)
IntToStr(n) == IF n < 0 THEN <<"-">> \o NatToStr(-n) ELSE NatToStr(n)

\* String(float, 1) of a value given in quarters: rounded to one decimal
FloatToStr1(q) ==
    LET tenths == (Abs(q) * 25 + 5) \div 10
        digits == NatToStr(tenths \div 10) \o <<".", DigitChar(tenths % 10)>>
    IN  IF q < 0 THEN <<"-">> \o digits ELSE digits

MetaSuffix(r, q) ==
    <<",\"rssi\":">> \o IntToStr(r) \o <<",\"snr\":">> \o FloatToStr1(q) \o <<"}">>

\* mutant: the closing brace is left in place before the metadata
AugmentKeepsBrace(data, r, q) == trim(data) \o MetaSuffix(r, q)

\* lines 272-280
Augment(data, r, q) ==
    LET t == trim(data)
        body == IF endsWith(t, "}") THEN SubSeq(t, 1, Len(t) - 1) ELSE t
    IN  body \o MetaSuffix(r, q)

ErrorLine == <<"ERROR:LoRa_init_failed", "\r", "\n">>
ReadyLine == <<"READY:Gateway_Online", "\r", "\n">>
DataLine(body) == <<"DATA:">> \o body \o <<"\r", "\n">>

\* lines 211-244 with LoRa.begin succeeding
GwSetupOk ==
    /\ gwPc = "boot"
    /\ serialOut' = Append(serialOut, ReadyLine)
    /\ gwPc' = "loop"
    /\ UNCHANGED <<led, radioMode, radioFifo, regRssi, regSnr, dados_recebidos, rssi,
                   snr, accepted, arrived>>
    /\ UNCHANGED <<nodeVars, oldVars>>

\* mutant: the failed bring-up goes on to the receive loop
GwSetupFailContinues ==
    /\ gwPc = "boot"
    /\ serialOut' = Append(serialOut, ErrorLine)
    /\ gwPc' = "loop"
    /\ UNCHANGED <<led, radioMode, radioFifo, regRssi, regSnr, dados_recebidos, rssi,
                   snr, accepted, arrived>>
    /\ UNCHANGED <<nodeVars, oldVars>>

\* lines 225-227: LoRa.begin fails
GwSetupFail ==
    /\ gwPc = "boot"
    /\ serialOut' = Append(serialOut, ErrorLine)
    /\ gwPc' = "halt"
    /\ UNCHANGED <<led, radioMode, radioFifo, regRssi, regSnr, dados_recebidos, rssi,
                   snr, accepted, arrived>>
    /\ UNCHANGED <<nodeVars, oldVars>>

\* lines 227-230: the endless blink
GwBlink ==
    /\ gwPc = "halt"
    /\ led' = ~led
    /\ UNCHANGED <<gwPc, serialOut, radioMode, radioFifo, regRssi, regSnr,
                   dados_recebidos, rssi, snr, accepted, arrived>>
    /\ UNCHANGED <<nodeVars, oldVars>>

\* a packet reaches the antenna: it is received if the radio is listening
\* and lost otherwise
PacketArrives(payloads, metas, maxPackets) ==
    /\ gwPc \in {"loop", "drain", "meta", "emit"}
    /\ arrived < maxPackets
    /\ arrived' = arrived + 1
    /\ IF radioMode = "rx"
         THEN \E p \in payloads, m \in metas :
                 /\ radioFifo' = p
                 /\ regRssi' = m[1]
                 /\ regSnr' = m[2]
                 /\ radioMode' = "done"
         ELSE UNCHANGED <<radioFifo, regRssi, regSnr, radioMode>>
    /\ UNCHANGED <<gwPc, serialOut, led, dados_recebidos, rssi, snr, accepted>>
    /\ UNCHANGED <<nodeVars, oldVars>>

\* lines 247-253: parsePacket() finds nothing and leaves the radio listening
GwPoll ==
    /\ gwPc = "loop"
    /\ radioMode = "idle"
    /\ radioMode' = "rx"
    /\ UNCHANGED <<gwPc, serialOut, led, radioFifo, regRssi, regSnr, dados_recebidos,
                   rssi, snr, accepted, arrived>>
    /\ UNCHANGED <<nodeVars, oldVars>>

\* lines 247-260: parsePacket() reports a packet, receberPacote() starts
GwAccept ==
    /\ gwPc = "loop"
    /\ radioMode = "done"
    /\ radioMode' = "idle"
    /\ accepted' = Append(accepted, [payload |-> radioFifo, rssi |-> regRssi,
                                     snr |-> regSnr])
    /\ led' = TRUE
    /\ dados_recebidos' = <<>>
    /\ gwPc' = "drain"
    /\ UNCHANGED <<serialOut, radioFifo, regRssi, regSnr, rssi, snr, arrived>>
    /\ UNCHANGED <<nodeVars, oldVars>>

\* lines 262-264
GwDrain ==
    /\ gwPc = "drain"
    /\ dados_recebidos' = dados_recebidos \o radioFifo
    /\ radioFifo' = <<>>
    /\ gwPc' = "meta"
    /\ UNCHANGED <<serialOut, led, radioMode, regRssi, regSnr, rssi, snr, accepted,
                   arrived>>
    /\ UNCHANGED <<nodeVars, oldVars>>

\* mutant: the link quality is not read again for this packet
GwReadMetaStale ==
    /\ gwPc = "meta"
    /\ gwPc' = "emit"
    /\ UNCHANGED <<rssi, snr, serialOut, led, radioMode, radioFifo, regRssi, regSnr,
                   dados_recebidos, accepted, arrived>>
    /\ UNCHANGED <<nodeVars, oldVars>>

\* lines 267-268
GwReadMeta ==
    /\ gwPc = "meta"
    /\ rssi' = regRssi
    /\ snr' = regSnr
    /\ gwPc' = "emit"
    /\ UNCHANGED <<serialOut, led, radioMode, radioFifo, regRssi, regSnr,
                   dados_recebidos, accepted, arrived>>
    /\ UNCHANGED <<nodeVars, oldVars>>

\* lines 272-287
GwEmit ==
    /\ gwPc = "emit"
    /\ dados_recebidos' = Augment(dados_recebidos, rssi, snr)
    /\ serialOut' = Append(serialOut, DataLine(dados_recebidos'))
    /\ led' = FALSE
    /\ gwPc' = "loop"
    /\ UNCHANGED <<radioMode, radioFifo, regRssi, regSnr, rssi, snr, accepted, arrived>>
    /\ UNCHANGED <<nodeVars, oldVars>>

NextGateway ==
    \/ GwSetupOk
    \/ GwSetupFail
    \/ GwBlink
    \/ PacketArrives(GwPayloads, GwMetas, MaxPackets)
    \/ GwPoll
    \/ GwAccept
    \/ GwDrain
    \/ GwReadMeta
    \/ GwEmit

SpecGateway == Init /\ [][NextGateway]_vars

----------------------------------------------------------------------------
(* The earlier low-power node (src/unnamed/part_000, second sketch): the  *)
(* same cycle without the time accounting.  It is run on the reading and  *)
(* the LoRa.begin outcome of the cycle the later node has just finished.  *)

OLD_LIMITE_TEMP == Unit \div 2
OLD_LIMITE_UMI == 2 * Unit
OLD_LIMITE_POEIRA == 5 * Unit
OldForceSendLimit == 60
MaxCyclesPair == 62

OldDecide(t, u, p, lt, lu, lp) ==
    \/ Abs(SubF32(t, lt)) >= OLD_LIMITE_TEMP
    \/ Abs(SubF32(u, lu)) >= OLD_LIMITE_UMI
    \/ Abs(SubF32(p, lp)) >= OLD_LIMITE_POEIRA

\* the LoRa.begin outcomes consistent with what the later node saw
RadioOutcomes ==
    IF path = "RADIO_FAULT" THEN {FALSE}
    ELSE IF path = "SEND" THEN {TRUE}
    ELSE BOOLEAN

\* mutant: the earlier node forces its send one cycle later
OldSetupOffByOne ==
    /\ pc = "sleep"
    /\ oldCycles < cycles
    /\ \E ok \in RadioOutcomes :
          LET mudou == OldDecide(temperatura, umidade, poeira,
                                 oldLastTemp, oldLastUmi, oldLastPoeira)
          IN  IF ~mudou /\ oldSkipSendCount + 1 <= OldForceSendLimit
                THEN /\ oldSkipSendCount' = oldSkipSendCount + 1
                     /\ oldPath' = "SKIP"
                     /\ oldTxPacket' = NoPacket
                     /\ UNCHANGED <<oldLastTemp, oldLastUmi, oldLastPoeira>>
                ELSE /\ oldSkipSendCount' = 0
                     /\ oldLastTemp' = temperatura
                     /\ oldLastUmi' = umidade
                     /\ oldLastPoeira' = poeira
                     /\ IF ok
                          THEN /\ oldPath' = "SEND"
                               /\ oldTxPacket' = Json(temperatura, umidade, poeira)
                          ELSE /\ oldPath' = "RADIO_FAULT"
                               /\ oldTxPacket' = NoPacket
    /\ oldCycles' = oldCycles + 1
    /\ UNCHANGED <<nodeVars, gwVars>>

\* part_000 lines 163-246: one whole run of setup()
OldSetup ==
    /\ pc = "sleep"
    /\ oldCycles < cycles
    /\ \E ok \in RadioOutcomes :
          LET mudou == OldDecide(temperatura, umidade, poeira,
                                 oldLastTemp, oldLastUmi, oldLastPoeira)
          IN  IF ~mudou /\ oldSkipSendCount + 1 < OldForceSendLimit
                THEN /\ oldSkipSendCount' = oldSkipSendCount + 1
                     /\ oldPath' = "SKIP"
                     /\ oldTxPacket' = NoPacket
                     /\ UNCHANGED <<oldLastTemp, oldLastUmi, oldLastPoeira>>
                ELSE /\ oldSkipSendCount' = 0
                     /\ oldLastTemp' = temperatura
                     /\ oldLastUmi' = umidade
                     /\ oldLastPoeira' = poeira
                     /\ IF ok
                          THEN /\ oldPath' = "SEND"
                               /\ oldTxPacket' = Json(temperatura, umidade, poeira)
                          ELSE /\ oldPath' = "RADIO_FAULT"
                               /\ oldTxPacket' = NoPacket
    /\ oldCycles' = oldCycles + 1
    /\ UNCHANGED <<nodeVars, gwVars>>

\* the later node wakes once the earlier one has caught up
WakePair == oldCycles = cycles /\ Wake(MaxCyclesPair)

NextPair ==
    \/ WakePair
    \/ Measure(TempDrawsLong, UmiDraws, PoeiraDraws)
    \/ Evaluate
    \/ Commit
    \/ LoRaBeginOk
    \/ LoRaBeginFail
    \/ Transmit
    \/ Stamp
    \/ Dormir(ActiveTimesLong)
    \/ OldSetup

SpecPair == Init /\ [][NextPair]_vars

----------------------------------------------------------------------------
(* Properties *)

TookSend == path \in {"SEND", "RADIO_FAULT"}

Evaluated == path # "NONE"

DataLines == IF serialOut = <<>> THEN <<>> ELSE Tail(serialOut)

TypeOK == pc \in {"sleep", "measure", "evaluate", "commit", "lora_begin", "transmit",
                  "stamp", "dormir"}

\* C1: an unchanged cycle that enters EVALUATE with skip_count = 59 takes the
\* SEND path (forced send) and ends with skip_count = 0; an unchanged cycle
\* that enters with skip_count = k < 59 takes the SKIP path and ends with
\* skip_count = k + 1.
C1_ForcedSend ==
    (Evaluated /\ ~mudouAlgo) =>
        /\ atWake.skipSendCount = ForceSendLimit - 1 =>
              TookSend /\ (pc = "sleep" => skipSendCount = 0)
        /\ atWake.skipSendCount < ForceSendLimit - 1 =>
              path = "SKIP" /\ (pc = "sleep" => skipSendCount = atWake.skipSendCount + 1)

C1_Witness ==
    /\ pc = "sleep"
    /\ ~mudouAlgo
    /\ path = "SEND"
    /\ atWake.skipSendCount = 59
    /\ skipSendCount = 0

\* C2: the node never ends more than 59 cycles in a row on the SKIP path, so
\* every window of 60 consecutive wake cycles holds a cycle on the SEND path.
C2_BoundedStaleness == consecSkips <= 59

C2_Witness == consecSkips = 59 /\ pc = "dormir" /\ TookSend /\ ~mudouAlgo

\* C3: from the cold-start state, whatever the reading, the change detector
\* returns true in the first wake cycle, which takes the SEND path and does
\* not increment skip_count.
C3_FirstCycleSends ==
    (cycles = 0 /\ Evaluated) => mudouAlgo /\ TookSend /\ skipSendCount = 0

C3_Witness ==
    /\ cycles = 0
    /\ pc = "commit"
    /\ mudouAlgo
    /\ temperatura = SimTemperatura(49)
    /\ umidade = SimUmidade(-100)
    /\ poeira = SimPoeira(100)

\* C4: the change decision is true exactly when at least one field differs
\* from the baseline by at least its threshold (0.5, 2.0, 5.0), the
\* difference taken exactly; a difference equal to the threshold is a change.
C4_ChangeDetection ==
    Evaluated =>
        (mudouAlgo <=>
            \/ Abs(temperatura - atWake.lastTemp) >= Unit \div 2
            \/ Abs(umidade - atWake.lastUmi) >= 2 * Unit
            \/ Abs(poeira - atWake.lastPoeira) >= 5 * Unit)

C4_Witness ==
    /\ Evaluated
    /\ mudouAlgo
    /\ Abs(temperatura - atWake.lastTemp) = Unit \div 2
    /\ Abs(umidade - atWake.lastUmi) < 2 * Unit
    /\ Abs(poeira - atWake.lastPoeira) < 5 * Unit

\* C5: skip_count is reset to 0 in every cycle that sends and in no other
\* cycle: a cycle that puts nothing on the radio never lowers skip_count.
C5_ResetOnlyOnSend ==
    (pc = "sleep" /\ Evaluated) =>
        IF txPacket # NoPacket THEN skipSendCount = 0
        ELSE skipSendCount >= atWake.skipSendCount

\* C6: in every reachable state 0 <= skip_count <= 60.
C6_SkipCountRange == skipSendCount >= 0 /\ skipSendCount <= 60

C6_Witness == skipSendCount = 60 /\ pc = "commit"

\* C7: a cycle on the SKIP path puts nothing on the radio, leaves last_sent
\* and last_send_time as they were at wake, ends with skip_count one higher
\* than it started, and still adds (active time + sleep duration) to
\* accumulated_time.
C7_SkipFrame ==
    path = "SKIP" =>
        /\ txPacket = NoPacket
        /\ loraBeginCalls = 0
        /\ lastTemp = atWake.lastTemp
        /\ lastUmi = atWake.lastUmi
        /\ lastPoeira = atWake.lastPoeira
        /\ lastSendTimestamp = atWake.lastSendTimestamp
        /\ skipSendCount = atWake.skipSendCount + 1
        /\ pc = "sleep" =>
              totalUptimeMicros = atWake.totalUptimeMicros + activeMicros + SleepMicros

C7_Witness ==
    /\ path = "SKIP"
    /\ pc = "sleep"
    /\ temperatura # lastTemp
    /\ skipSendCount = 2
    /\ activeMicros = 500000

\* C8: when the SEND path is taken and the radio initialisation fails,
\* nothing is put on the radio in that cycle and the node goes to
\* suspension, with last_sent equal to the current reading and
\* skip_count = 0.
C8_RadioFault ==
    path = "RADIO_FAULT" =>
        /\ txPacket = NoPacket
        /\ pc \in {"dormir", "sleep"}
        /\ lastTemp = temperatura
        /\ lastUmi = umidade
        /\ lastPoeira = poeira
        /\ skipSendCount = 0
        /\ pc = "sleep" => sleepRequests = 1

C8_Witness ==
    /\ path = "RADIO_FAULT"
    /\ pc = "sleep"
    /\ atWake.skipSendCount > 0
    /\ atWake.lastTemp # lastTemp

\* C9: accumulated_time grows exactly once per wake cycle, on every path, by
\* the cycle's active time plus the sleep duration; after N cycles it is the
\* sum of (A_i + D) and it never decreases.
C9_AccumulatedTime ==
    /\ (pc = "sleep" /\ cycles > 0) =>
          totalUptimeMicros = atWake.totalUptimeMicros + activeMicros + SleepMicros
    /\ pc # "sleep" => totalUptimeMicros = atWake.totalUptimeMicros
    /\ totalUptimeMicros = sumActive + cycles * SleepMicros
    /\ totalUptimeMicros >= atWake.totalUptimeMicros

C9_Witness ==
    /\ pc = "sleep"
    /\ path = "SEND"
    /\ ~mudouAlgo
    /\ cycles > 60
    /\ sumActive > cycles * 200000
    /\ sumActive < cycles * 500000

\* C10: once some cycle has completed a send, every later wake cycle sees a
\* last_send_time other than "never" and reports the time since that send.
C10_NeverOnlyBeforeFirstSend ==
    (pc = "measure" /\ sendDone) => ~firstBootReport

\* C11: last_sent and last_send_time change only in a cycle that completes a
\* send; a cycle that puts nothing on the radio ends with both as at wake.
C11_CommitOnlyOnSend ==
    (pc = "sleep" /\ Evaluated /\ txPacket = NoPacket) =>
        /\ lastTemp = atWake.lastTemp
        /\ lastUmi = atWake.lastUmi
        /\ lastPoeira = atWake.lastPoeira
        /\ lastSendTimestamp = atWake.lastSendTimestamp

\* C12 (as stated): the radio initialisation is attempted in every wake
\* cycle, so the cycle after a radio-fault cycle attempts it again.
C12_InitEveryCycle ==
    (pc = "sleep" /\ Evaluated /\ prevPath = "RADIO_FAULT") => loraBeginCalls >= 1

\* C12 (amended): every cycle on the SEND path attempts the radio
\* initialisation exactly once, whatever happened in earlier cycles, and a
\* cycle on the SKIP path attempts none.
C12_InitOnSendPath ==
    (pc = "sleep" /\ Evaluated) => loraBeginCalls = (IF TookSend THEN 1 ELSE 0)

C12_Witness ==
    /\ pc = "sleep"
    /\ prevPath = "RADIO_FAULT"
    /\ path = "SEND"
    /\ loraBeginCalls = 1
    /\ txPacket # NoPacket

\* C16: a cycle that completes a send sets last_send_time to the value
\* accumulated_time had at wake; after the cycle the two differ by exactly
\* that cycle's active time plus the sleep duration.
C16_StampBeforeAccount ==
    (pc = "sleep" /\ txPacket # NoPacket) =>
        /\ lastSendTimestamp = atWake.totalUptimeMicros
        /\ totalUptimeMicros - lastSendTimestamp = activeMicros + SleepMicros

C16_Witness ==
    /\ pc = "sleep"
    /\ txPacket # NoPacket
    /\ ~mudouAlgo
    /\ lastSendTimestamp > 0
    /\ activeMicros = 500000

\* C17: every wake cycle, whatever its path, requests suspension exactly
\* once, and nothing of the cycle runs after the request.
C17_SuspendOnce ==
    sleepRequests = (IF pc = "sleep" /\ cycles > 0 THEN 1 ELSE 0)

C17_Witness ==
    /\ pc = "sleep"
    /\ path = "RADIO_FAULT"
    /\ sleepRequests = 1
    /\ ~mudouAlgo

\* C19: last_send_time <= accumulated_time in every reachable state, so the
\* difference computed at wake does not underflow.
C19_StampNotAhead == lastSendTimestamp <= totalUptimeMicros

C19_Witness ==
    /\ pc = "measure"
    /\ ~firstBootReport
    /\ lastSendTimestamp = atWake.totalUptimeMicros - 1200000
    /\ lastSendTimestamp > 0

\* number of whitespace characters a string starts with
LeadingSpaces(p) ==
    CHOOSE k \in 0..Len(p) :
        /\ \A j \in 1..k : IsSpace(p[j])
        /\ k = Len(p) \/ ~IsSpace(p[k + 1])

\* C13 (as stated): for every received payload that ends in '}' the gateway
\* emits DATA:, the payload with its final '}' replaced by
\* ,"rssi":<rssi>,"snr":<snr>} and a line end, every byte before the final
\* '}' unchanged.
C13_AugmentKeepsPrefix ==
    \A i \in 1..Len(DataLines) :
        LET p == accepted[i].payload
        IN  endsWith(p, "}") =>
              DataLines[i] = DataLine(SubSeq(p, 1, Len(p) - 1)
                                        \o MetaSuffix(accepted[i].rssi, accepted[i].snr))

\* C13 (amended): as above, except that whitespace at the start of the
\* payload is stripped; every byte between it and the final '}' is unchanged.
C13_AugmentTrimmed ==
    \A i \in 1..Len(DataLines) :
        LET p == accepted[i].payload
        IN  endsWith(p, "}") =>
              DataLines[i] = DataLine(SubSeq(p, LeadingSpaces(p) + 1, Len(p) - 1)
                                        \o MetaSuffix(accepted[i].rssi, accepted[i].snr))

C13_Witness ==
    /\ Len(DataLines) = 2
    /\ accepted[1].payload = <<" ", "}">>
    /\ accepted[2].payload = <<"a", "}">>
    /\ DataLines[2] = <<"DATA:", "a", ",\"rssi\":", "-", "4", "2", ",\"snr\":",
                        "7", ".", "5", "}", "\r", "\n">>

\* C14: a packet whose payload does not end with '}' is dropped: only
\* well-formed packets get a DATA line, and the loop goes on.
C14_MalformedDropped ==
    gwPc = "loop" =>
        Len(DataLines) =
            Cardinality({i \in 1..Len(accepted) : endsWith(trim(accepted[i].payload), "}")})

\* C15: after a failed bring-up the error line is the only protocol line ever
\* written and the receive loop is never reached; after a successful one
\* READY is written once, before any DATA line.
C15_BringUp ==
    /\ gwPc = "boot" => serialOut = <<>>
    /\ gwPc = "halt" => serialOut = <<ErrorLine>> /\ accepted = <<>> /\ arrived = 0
    /\ gwPc \in {"loop", "drain", "meta", "emit"} =>
          /\ serialOut[1] = ReadyLine
          /\ \A i \in 2..Len(serialOut) : serialOut[i][1] = "DATA:"

C15_Witness == gwPc = "halt" /\ led

\* C18: every accepted packet is drained, augmented and written as one DATA
\* line before the next is accepted; the line carries the rssi and snr of
\* that same packet, and the lines come in the order of acceptance.
C18_RelayOrder ==
    /\ Len(DataLines) = (IF gwPc \in {"drain", "meta", "emit"}
                           THEN Len(accepted) - 1 ELSE Len(accepted))
    /\ \A i \in 1..Len(DataLines) :
          DataLines[i] = DataLine(Augment(accepted[i].payload, accepted[i].rssi,
                                          accepted[i].snr))

C18_Witness ==
    /\ gwPc = "loop"
    /\ Len(accepted) = 2
    /\ Len(DataLines) = 2
    /\ accepted[1].rssi # accepted[2].rssi
    /\ accepted[1].payload # accepted[2].payload

\* C20: fed the same readings and the same LoRa.begin outcomes from cold
\* start, the two low-power node variants take the same path in every cycle,
\* transmit the same payload, and hold the same last_sent and skip_count at
\* every suspension.
C20_VariantsAgree ==
    (pc = "sleep" /\ oldCycles = cycles) =>
        /\ oldPath = path
        /\ oldTxPacket = txPacket
        /\ oldLastTemp = lastTemp
        /\ oldLastUmi = lastUmi
        /\ oldLastPoeira = lastPoeira
        /\ oldSkipSendCount = skipSendCount

C20_Witness ==
    /\ pc = "sleep"
    /\ oldCycles = cycles
    /\ cycles > 60
    /\ oldPath = "SEND"
    /\ ~mudouAlgo
    /\ prevPath = "SKIP"
    /\ oldTxPacket # NoPacket

====
